---- MODULE Spec2Model ----
(***************************************************************************)
(* Verification model of the two MNIST notebooks (modified LeNet-5 and the *)
(* dilated-convolution CAN).  Three specifications share this module:      *)
(*   Spec / FairSpec : one top-to-bottom run of a notebook, with sample    *)
(*                     identities, on scaled-down dataset sizes;           *)
(*   IterSpec        : one pass over train_loader / test_loader at the     *)
(*                     real sizes (60000 / 10000 samples, batch_size 64);  *)
(*   ShapeSpec       : the forward pass of LeNet5 / CANModel on the        *)
(*                     spatial shape of one input image.                   *)
(* Floating-point values (pixel data, loss, weights) are outside the model:*)
(* parameters are represented by the number of optimizer updates applied,  *)
(* gradients by the set of batches whose backward pass is accumulated.     *)
(***************************************************************************)
EXTENDS Integers, Sequences, FiniteSets, TLC

\* ---- hyperparameters and dataset sizes of the notebooks ----
batch_size == 64
num_epochs == 20
num_classes == 10
TrainSetSize == 60000
TestSetSize == 10000

\* ---- scaled-down sizes used by Spec (stand-ins for 60000, 10000, 64, 20) ----
TrainN == 5
TestN == 3
BatchN == 2
EpochsN == 2
\* largest input height/width tried by ShapeSpec
MaxH == 36

VARIABLES
  notebook,      \* which notebook runs: "lenet5" or "can"
  pc,            \* position in the notebook
  loaders,       \* TRUE once train_loader / test_loader exist
  model,         \* "none", "class" (class defined), "ready" (instantiated, optimizer built)
  epoch,         \* loop variable of `for epoch in range(num_epochs)`
  remaining,     \* sample indices the shuffling sampler has not yet yielded in this pass
  i,             \* number of batches already taken from the current iterator
  batch,         \* sample indices of the current batch (labels.size(0) = Cardinality(batch))
  seen,          \* per sample of the dataset being iterated: batches it appeared in this pass
  ops,           \* framework calls made on the current batch, in order
  loss,          \* batch whose graph the current loss tensor holds, <<>> if none
  grad,          \* batches whose gradients are accumulated in the parameters' .grad
  applied,       \* gradients consumed by the most recent optimizer.step()
  params,        \* trainable parameters: number of updates applied so far
  bn_stats,      \* BatchNorm running statistics: number of updates (buffers, not parameters)
  grad_enabled,  \* FALSE inside `with torch.no_grad()`
  total, correct,
  output,        \* printed lines, without their formatted floating-point figures
  printed,       \* value shown in the test-accuracy line: <<numerator, denominator>>
  train_iters,   \* executed bodies of the inner training loop
  test_iters,    \* executed bodies of the test loop
  ld_n, ld_i, ld_len, ld_total, ld_state,          \* IterSpec
  net, inH, inW, li, curC, curH, curW, feat, fwd   \* ShapeSpec

runVars == <<notebook, pc, loaders, model, epoch, remaining, i, batch, seen, ops, loss,
             grad, applied, params, bn_stats, grad_enabled, total, correct, output,
             printed, train_iters, test_iters>>
iterVars == <<ld_n, ld_i, ld_len, ld_total, ld_state>>
shapeVars == <<net, inH, inW, li, curC, curH, curW, feat, fwd>>
vars == <<runVars, iterVars, shapeVars>>

Min(a, b) == IF a <= b THEN a ELSE b

\* ---------------------------------------------------------------------
\* DataLoader(dataset, batch_size = b, shuffle = True), drop_last left at
\* its default False: the sampler yields the n indices in a random remaining,
\* each once, and the batch sampler groups them b at a time in the order
\* they are yielded, the last group holding whatever is left.
\* ---------------------------------------------------------------------
\* len(loader)
LoaderLen(n, b) == (n + b - 1) \div b

\* the iterator has a (k+1)-th batch after k batches were taken
HasBatch_droplast(n, b, k) == (k + 1) * b <= n
HasBatch(n, b, k) == k * b < n

BatchLo(b, k) == k * b + 1

BatchHi(n, b, k) == Min((k + 1) * b, n)

\* number of pairs in the (k+1)-th batch
BatchLen(n, b, k) == BatchHi(n, b, k) - BatchLo(b, k) + 1

\* the (k+1)-th batch: the next BatchLen indices the sampler yields, which
\* are any of those it has not yielded yet
Draw_replacement(rem, n, b, k) == {S \in SUBSET (1..n) : Cardinality(S) = BatchLen(n, b, k)}
Draw(rem, n, b, k) == {S \in SUBSET rem : Cardinality(S) = BatchLen(n, b, k)}

Range(s) == {s[x] : x \in DOMAIN s}

NoneSeen(n) == [s \in 1..n |-> 0]
MarkSeen(sn, b) == [s \in DOMAIN sn |-> sn[s] + (IF s \in b THEN 1 ELSE 0)]

\* ---------------------------------------------------------------------
\* Spec: one run of a notebook, cell after cell.
\* ---------------------------------------------------------------------
Notebooks == {"lenet5", "can"}

\* LeNet5 contains nn.BatchNorm2d layers, CANModel has none; neither
\* notebook calls model.eval(), so the module stays in training mode and
\* every forward pass of LeNet5 updates the running statistics.
HasBatchNorm(nb) == nb = "lenet5"
ForwardStats(nb, st) == IF HasBatchNorm(nb) THEN st + 1 ELSE st

\* optimizer.zero_grad()
ZeroGrad_keep(g) == g
ZeroGrad(g) == {}

\* loss.backward(): adds the gradients of the loss to .grad
Accumulate(g, l) == g \cup {l}

\* optimizer.step(): parameters without a gradient are skipped
StepParams(p, g) == IF g = {} THEN p ELSE p + 1

\* `for epoch in range(num_epochs)` is exhausted
EpochsDone_early(e, n) == e >= n - 1
EpochsDone(e, n) == e >= n

\* total += labels.size(0)
AddTotal_nominal(t, b) == t + BatchN
AddTotal(t, b) == t + Cardinality(b)

\* 100 * correct / total, kept as the fraction <<numerator, denominator>>
Percent(c, t) == <<100 * c, t>>

RunFresh ==
  /\ loaders = FALSE
  /\ model = "none"
  /\ epoch = 0
  /\ remaining = {}
  /\ i = 0
  /\ batch = {}
  /\ seen = <<>>
  /\ ops = <<>>
  /\ loss = <<>>
  /\ grad = {}
  /\ applied = {}
  /\ params = 0
  /\ bn_stats = 0
  /\ grad_enabled = TRUE
  /\ total = 0
  /\ correct = 0
  /\ output = <<>>
  /\ printed = <<>>
  /\ train_iters = 0
  /\ test_iters = 0

RunInit == notebook \in Notebooks /\ pc = "load" /\ RunFresh

RunIdle == notebook = "none" /\ pc = "idle" /\ RunFresh

IterIdle ==
  /\ ld_n = 0 /\ ld_i = 0 /\ ld_len = 0 /\ ld_total = 0 /\ ld_state = "idle"

ShapeIdle ==
  /\ net = "none" /\ inH = 0 /\ inW = 0 /\ li = 0
  /\ curC = 0 /\ curH = 0 /\ curW = 0 /\ feat = 0 /\ fwd = "idle"

Init == RunInit /\ IterIdle /\ ShapeIdle

\* cell 2: datasets and loaders
LoadData ==
  /\ pc = "load"
  /\ loaders' = TRUE
  /\ pc' = "define"
  /\ UNCHANGED <<notebook, model, epoch, remaining, i, batch, seen, ops, loss, grad, applied,
                 params, bn_stats, grad_enabled, total, correct, output, printed,
                 train_iters, test_iters>>
  /\ UNCHANGED <<iterVars, shapeVars>>

\* cell 3: class LeNet5 / class CANModel
DefineModel ==
  /\ pc = "define"
  /\ model' = "class"
  /\ pc' = "create"
  /\ UNCHANGED <<notebook, loaders, epoch, remaining, i, batch, seen, ops, loss, grad, applied,
                 params, bn_stats, grad_enabled, total, correct, output, printed,
                 train_iters, test_iters>>
  /\ UNCHANGED <<iterVars, shapeVars>>

\* cell 4: model, cost, optimizer, total_step
CreateModel ==
  /\ pc = "create"
  /\ model = "class"
  /\ loaders
  /\ model' = "ready"
  /\ pc' = "epoch"
  /\ UNCHANGED <<notebook, loaders, epoch, remaining, i, batch, seen, ops, loss, grad, applied,
                 params, bn_stats, grad_enabled, total, correct, output, printed,
                 train_iters, test_iters>>
  /\ UNCHANGED <<iterVars, shapeVars>>

\* cell 5, head of the outer loop with an epoch left: reset the counters
\* and open a fresh iterator on train_loader
EpochBegin ==
  /\ pc = "epoch"
  /\ ~EpochsDone(epoch, EpochsN)
  /\ correct' = 0
  /\ total' = 0
  /\ remaining' = 1..TrainN
  /\ i' = 0
  /\ seen' = NoneSeen(TrainN)
  /\ pc' = "fetch"
  /\ UNCHANGED <<notebook, loaders, model, epoch, batch, ops, loss, grad, applied, params,
                 bn_stats, grad_enabled, output, printed, train_iters, test_iters>>
  /\ UNCHANGED <<iterVars, shapeVars>>

\* cell 5, head of the outer loop with range(num_epochs) exhausted
TrainEnd ==
  /\ pc = "epoch"
  /\ EpochsDone(epoch, EpochsN)
  /\ pc' = "test"
  /\ UNCHANGED <<notebook, loaders, model, epoch, remaining, i, batch, seen, ops, loss, grad,
                 applied, params, bn_stats, grad_enabled, total, correct, output, printed,
                 train_iters, test_iters>>
  /\ UNCHANGED <<iterVars, shapeVars>>

\* head of the inner loop: next (images, labels) of train_loader
Fetch ==
  /\ pc = "fetch"
  /\ HasBatch(TrainN, BatchN, i)
  /\ batch' \in Draw(remaining, TrainN, BatchN, i)
  /\ remaining' = remaining \ batch'
  /\ seen' = MarkSeen(seen, batch')
  /\ ops' = <<>>
  /\ pc' = "forward"
  /\ UNCHANGED <<notebook, loaders, model, epoch, i, loss, grad, applied, params,
                 bn_stats, grad_enabled, total, correct, output, printed, train_iters,
                 test_iters>>
  /\ UNCHANGED <<iterVars, shapeVars>>

\* head of the inner loop: train_loader exhausted
FetchEnd ==
  /\ pc = "fetch"
  /\ ~HasBatch(TrainN, BatchN, i)
  /\ pc' = "epoch_end"
  /\ UNCHANGED <<notebook, loaders, model, epoch, remaining, i, batch, seen, ops, loss, grad,
                 applied, params, bn_stats, grad_enabled, total, correct, output, printed,
                 train_iters, test_iters>>
  /\ UNCHANGED <<iterVars, shapeVars>>

\* outputs = model(images)
Forward ==
  /\ pc = "forward"
  /\ ops' = Append(ops, "forward")
  /\ bn_stats' = ForwardStats(notebook, bn_stats)
  /\ pc' = "loss"
  /\ UNCHANGED <<notebook, loaders, model, epoch, remaining, i, batch, seen, loss, grad, applied,
                 params, grad_enabled, total, correct, output, printed, train_iters,
                 test_iters>>
  /\ UNCHANGED <<iterVars, shapeVars>>

\* loss = cost(outputs, labels)
Loss ==
  /\ pc = "loss"
  /\ ops' = Append(ops, "loss")
  /\ loss' = <<epoch, i>>
  /\ pc' = "zero_grad"
  /\ UNCHANGED <<notebook, loaders, model, epoch, remaining, i, batch, seen, grad, applied,
                 params, bn_stats, grad_enabled, total, correct, output, printed,
                 train_iters, test_iters>>
  /\ UNCHANGED <<iterVars, shapeVars>>

\* optimizer.zero_grad()
ZeroGradStep ==
  /\ pc = "zero_grad"
  /\ ops' = Append(ops, "zero_grad")
  /\ grad' = ZeroGrad(grad)
  /\ pc' = "backward"
  /\ UNCHANGED <<notebook, loaders, model, epoch, remaining, i, batch, seen, loss, applied,
                 params, bn_stats, grad_enabled, total, correct, output, printed,
                 train_iters, test_iters>>
  /\ UNCHANGED <<iterVars, shapeVars>>

\* loss.backward()
Backward ==
  /\ pc = "backward"
  /\ grad_enabled
  /\ ops' = Append(ops, "backward")
  /\ grad' = Accumulate(grad, loss)
  /\ pc' = "step"
  /\ UNCHANGED <<notebook, loaders, model, epoch, remaining, i, batch, seen, loss, applied,
                 params, bn_stats, grad_enabled, total, correct, output, printed,
                 train_iters, test_iters>>
  /\ UNCHANGED <<iterVars, shapeVars>>

\* optimizer.step()
Step ==
  /\ pc = "step"
  /\ ops' = Append(ops, "step")
  /\ applied' = grad
  /\ params' = StepParams(params, grad)
  /\ pc' = "track"
  /\ UNCHANGED <<notebook, loaders, model, epoch, remaining, i, batch, seen, loss, grad,
                 bn_stats, grad_enabled, total, correct, output, printed, train_iters,
                 test_iters>>
  /\ UNCHANGED <<iterVars, shapeVars>>

\* running_loss, predicted, total, correct; then back to the loop head
Track ==
  /\ pc = "track"
  /\ total' = AddTotal(total, batch)
  /\ \E c \in 0..Cardinality(batch) : correct' = correct + c
  /\ i' = i + 1
  /\ train_iters' = train_iters + 1
  /\ pc' = "fetch"
  /\ UNCHANGED <<notebook, loaders, model, epoch, remaining, batch, seen, ops, loss, grad,
                 applied, params, bn_stats, grad_enabled, output, printed, test_iters>>
  /\ UNCHANGED <<iterVars, shapeVars>>

\* avg_loss, accuracy and the 'Epoch [k/num_epochs]' line
EpochPrint ==
  /\ pc = "epoch_end"
  /\ total > 0
  /\ output' = Append(output, <<"Epoch", epoch + 1, EpochsN>>)
  /\ epoch' = epoch + 1
  /\ pc' = "epoch"
  /\ UNCHANGED <<notebook, loaders, model, remaining, i, batch, seen, ops, loss, grad, applied,
                 params, bn_stats, grad_enabled, total, correct, printed, train_iters, test_iters>>
  /\ UNCHANGED <<iterVars, shapeVars>>

\* cell 6: enter `with torch.no_grad()`, reset the counters and open an
\* iterator on test_loader
TestBegin ==
  /\ pc = "test"
  /\ grad_enabled' = FALSE
  /\ correct' = 0
  /\ total' = 0
  /\ remaining' = 1..TestN
  /\ i' = 0
  /\ seen' = NoneSeen(TestN)
  /\ pc' = "test_fetch"
  /\ UNCHANGED <<notebook, loaders, model, epoch, batch, ops, loss, grad, applied, params,
                 bn_stats, output, printed, train_iters, test_iters>>
  /\ UNCHANGED <<iterVars, shapeVars>>

\* head of the test loop: next (images, labels) of test_loader
TestFetch ==
  /\ pc = "test_fetch"
  /\ HasBatch(TestN, BatchN, i)
  /\ batch' \in Draw(remaining, TestN, BatchN, i)
  /\ remaining' = remaining \ batch'
  /\ seen' = MarkSeen(seen, batch')
  /\ ops' = <<>>
  /\ pc' = "test_body"
  /\ UNCHANGED <<notebook, loaders, model, epoch, i, loss, grad, applied, params,
                 bn_stats, grad_enabled, total, correct, output, printed, train_iters,
                 test_iters>>
  /\ UNCHANGED <<iterVars, shapeVars>>

\* head of the test loop: test_loader exhausted
TestFetchEnd ==
  /\ pc = "test_fetch"
  /\ ~HasBatch(TestN, BatchN, i)
  /\ pc' = "test_print"
  /\ UNCHANGED <<notebook, loaders, model, epoch, remaining, i, batch, seen, ops, loss, grad,
                 applied, params, bn_stats, grad_enabled, total, correct, output, printed,
                 train_iters, test_iters>>
  /\ UNCHANGED <<iterVars, shapeVars>>

\* the test-loop body with the training body's optimizer.step() left in
TestBody_withstep ==
  /\ pc = "test_body"
  /\ ops' = ops \o <<"forward", "step">>
  /\ bn_stats' = ForwardStats(notebook, bn_stats)
  /\ applied' = grad
  /\ params' = StepParams(params, grad)
  /\ total' = AddTotal(total, batch)
  /\ \E c \in 0..Cardinality(batch) : correct' = correct + c
  /\ i' = i + 1
  /\ test_iters' = test_iters + 1
  /\ pc' = "test_fetch"
  /\ UNCHANGED <<notebook, loaders, model, epoch, remaining, batch, seen, loss, grad,
                 grad_enabled, output, printed, train_iters>>
  /\ UNCHANGED <<iterVars, shapeVars>>

\* body of the test loop: outputs = model(images), predicted, total, correct
TestBody ==
  /\ pc = "test_body"
  /\ ops' = Append(ops, "forward")
  /\ bn_stats' = ForwardStats(notebook, bn_stats)
  /\ total' = AddTotal(total, batch)
  /\ \E c \in 0..Cardinality(batch) : correct' = correct + c
  /\ i' = i + 1
  /\ test_iters' = test_iters + 1
  /\ pc' = "test_fetch"
  /\ UNCHANGED <<notebook, loaders, model, epoch, remaining, batch, seen, loss, grad, applied,
                 params, grad_enabled, output, printed, train_iters>>
  /\ UNCHANGED <<iterVars, shapeVars>>

\* the 'Accuracy of the network ...' line, then the with-block is left
TestPrint ==
  /\ pc = "test_print"
  /\ total > 0
  /\ printed' = Percent(correct, total)
  /\ output' = Append(output, <<"Accuracy">>)
  /\ grad_enabled' = TRUE
  /\ pc' = "done"
  /\ UNCHANGED <<notebook, loaders, model, epoch, remaining, i, batch, seen, ops, loss, grad,
                 applied, params, bn_stats, total, correct, train_iters, test_iters>>
  /\ UNCHANGED <<iterVars, shapeVars>>

Next ==
  \/ LoadData
  \/ DefineModel
  \/ CreateModel
  \/ EpochBegin
  \/ TrainEnd
  \/ Fetch
  \/ FetchEnd
  \/ Forward
  \/ Loss
  \/ ZeroGradStep
  \/ Backward
  \/ Step
  \/ Track
  \/ EpochPrint
  \/ TestBegin
  \/ TestFetch
  \/ TestFetchEnd
  \/ TestBody
  \/ TestPrint

Spec == Init /\ [][Next]_vars

\* the notebook kernel executes the cells' statements one after another
\* without being suspended
FairSpec == Spec /\ WF_vars(Next)

\* ---------------------------------------------------------------------
\* IterSpec: one pass over train_loader or test_loader at the real sizes;
\* a batch is represented by its number of image/label pairs.
\* ---------------------------------------------------------------------
IterInit ==
  /\ ld_n \in {TrainSetSize, TestSetSize}
  /\ ld_i = 0
  /\ ld_len = 0
  /\ ld_total = 0
  /\ ld_state = "iterating"
  /\ RunIdle
  /\ ShapeIdle

\* the loader yields its next batch; the loop body adds labels.size(0) to total
LdNext ==
  /\ ld_state = "iterating"
  /\ HasBatch(ld_n, batch_size, ld_i)
  /\ ld_len' = BatchHi(ld_n, batch_size, ld_i) - BatchLo(batch_size, ld_i) + 1
  /\ ld_total' = ld_total + ld_len'
  /\ ld_i' = ld_i + 1
  /\ UNCHANGED <<ld_n, ld_state>>
  /\ UNCHANGED <<runVars, shapeVars>>

\* the loader is exhausted and the for loop ends
LdStop ==
  /\ ld_state = "iterating"
  /\ ~HasBatch(ld_n, batch_size, ld_i)
  /\ ld_state' = "exhausted"
  /\ UNCHANGED <<ld_n, ld_i, ld_len, ld_total>>
  /\ UNCHANGED <<runVars, shapeVars>>

IterNext == LdNext \/ LdStop

IterSpec == IterInit /\ [][IterNext]_vars

\* ---------------------------------------------------------------------
\* ShapeSpec: forward() of LeNet5 and CANModel on the shape (C, H, W) of
\* one image.  A shape the framework rejects ends the pass in "error".
\* ---------------------------------------------------------------------
Conv(cin, cout, k, s, p, d) ==
  [kind |-> "conv", cin |-> cin, cout |-> cout, k |-> k, s |-> s, p |-> p, d |-> d]
BatchNorm(c) ==
  [kind |-> "bn", cin |-> c, cout |-> c, k |-> 1, s |-> 1, p |-> 0, d |-> 1]
Act ==
  [kind |-> "act", cin |-> 0, cout |-> 0, k |-> 1, s |-> 1, p |-> 0, d |-> 1]
MaxPool(k, s) ==
  [kind |-> "pool", cin |-> 0, cout |-> 0, k |-> k, s |-> s, p |-> 0, d |-> 1]
AdaptiveAvgPool ==
  [kind |-> "avgpool", cin |-> 0, cout |-> 0, k |-> 1, s |-> 1, p |-> 0, d |-> 1]
Linear(fin, fout) == [fin |-> fin, fout |-> fout]

\* LeNet5.layer1 followed by LeNet5.layer2, in forward() order
LeNetLayers_pad2 ==
  << Conv(1, 6, 5, 1, 2, 1), BatchNorm(6), Act, MaxPool(2, 2),
     Conv(6, 16, 5, 1, 0, 1), BatchNorm(16), Act, MaxPool(2, 2) >>
LeNetLayers ==
  << Conv(1, 6, 5, 1, 0, 1), BatchNorm(6), Act, MaxPool(2, 2),
     Conv(6, 16, 5, 1, 0, 1), BatchNorm(16), Act, MaxPool(2, 2) >>

\* fc, fc1, fc2 (the ReLUs between them keep the feature count)
LeNetLinears == << Linear(400, 120), Linear(120, 84), Linear(84, num_classes) >>

\* conv1..conv5, each followed by leaky_relu, then avg_pool
CANLayers_pad4 ==
  << Conv(1, 32, 3, 1, 1, 1), Act, Conv(32, 32, 3, 1, 2, 2), Act,
     Conv(32, 32, 3, 1, 4, 4), Act, Conv(32, 32, 3, 1, 4, 8), Act,
     Conv(32, 10, 3, 1, 1, 1), Act, AdaptiveAvgPool >>
CANLayers ==
  << Conv(1, 32, 3, 1, 1, 1), Act, Conv(32, 32, 3, 1, 2, 2), Act,
     Conv(32, 32, 3, 1, 4, 4), Act, Conv(32, 32, 3, 1, 8, 8), Act,
     Conv(32, 10, 3, 1, 1, 1), Act, AdaptiveAvgPool >>

LayersOf(n) == IF n = "lenet5" THEN LeNetLayers ELSE CANLayers
LinearsOf(n) == IF n = "lenet5" THEN LeNetLinears ELSE <<>>

\* output extent of a convolution or pooling window along one axis
WindowOut(h, l) == ((h + 2 * l.p - l.d * (l.k - 1) - 1) \div l.s) + 1

\* the padded input must cover the dilated kernel
WindowFits(h, l) == h + 2 * l.p >= l.d * (l.k - 1) + 1

LayerAccepts(l, c, h, w) ==
  CASE l.kind = "conv" -> c = l.cin /\ WindowFits(h, l) /\ WindowFits(w, l)
    [] l.kind = "bn" -> c = l.cin
    [] l.kind = "pool" -> WindowOut(h, l) >= 1 /\ WindowOut(w, l) >= 1
    [] OTHER -> TRUE

LayerC(l, c) == IF l.kind = "conv" THEN l.cout ELSE c
LayerExtent(l, h) ==
  CASE l.kind \in {"conv", "pool"} -> WindowOut(h, l)
    [] l.kind = "avgpool" -> 1
    [] OTHER -> h

ShapeInit ==
  /\ net \in Notebooks
  /\ inH \in 1..MaxH
  /\ inW \in 1..MaxH
  /\ li = 0
  /\ curC = 1
  /\ curH = inH
  /\ curW = inW
  /\ feat = 0
  /\ fwd = "layers"
  /\ RunIdle
  /\ IterIdle

\* the next convolution / normalisation / activation / pooling layer
ApplyLayer ==
  /\ fwd = "layers"
  /\ li < Len(LayersOf(net))
  /\ LET l == LayersOf(net)[li + 1] IN
       /\ LayerAccepts(l, curC, curH, curW)
       /\ curC' = LayerC(l, curC)
       /\ curH' = LayerExtent(l, curH)
       /\ curW' = LayerExtent(l, curW)
  /\ li' = li + 1
  /\ UNCHANGED <<net, inH, inW, feat, fwd>>
  /\ UNCHANGED <<runVars, iterVars>>

\* the next layer raises on the shape it is given
LayerError ==
  /\ fwd = "layers"
  /\ li < Len(LayersOf(net))
  /\ ~LayerAccepts(LayersOf(net)[li + 1], curC, curH, curW)
  /\ fwd' = "error"
  /\ UNCHANGED <<net, inH, inW, li, curC, curH, curW, feat>>
  /\ UNCHANGED <<runVars, iterVars>>

\* out.reshape(out.size(0), -1) / x.view(x.size(0), -1)
Flatten ==
  /\ fwd = "layers"
  /\ li = Len(LayersOf(net))
  /\ feat' = curC * curH * curW
  /\ li' = 0
  /\ fwd' = "flat"
  /\ UNCHANGED <<net, inH, inW, curC, curH, curW>>
  /\ UNCHANGED <<runVars, iterVars>>

\* the next fully connected layer
ApplyLinear ==
  /\ fwd = "flat"
  /\ li < Len(LinearsOf(net))
  /\ feat = LinearsOf(net)[li + 1].fin
  /\ feat' = LinearsOf(net)[li + 1].fout
  /\ li' = li + 1
  /\ UNCHANGED <<net, inH, inW, curC, curH, curW, fwd>>
  /\ UNCHANGED <<runVars, iterVars>>

\* the next fully connected layer raises on the feature count
LinearError ==
  /\ fwd = "flat"
  /\ li < Len(LinearsOf(net))
  /\ feat # LinearsOf(net)[li + 1].fin
  /\ fwd' = "error"
  /\ UNCHANGED <<net, inH, inW, li, curC, curH, curW, feat>>
  /\ UNCHANGED <<runVars, iterVars>>

\* return out / return x
Return ==
  /\ fwd = "flat"
  /\ li = Len(LinearsOf(net))
  /\ fwd' = "ok"
  /\ UNCHANGED <<net, inH, inW, li, curC, curH, curW, feat>>
  /\ UNCHANGED <<runVars, iterVars>>

ShapeNext == ApplyLayer \/ LayerError \/ Flatten \/ ApplyLinear \/ LinearError \/ Return

ShapeSpec == ShapeInit /\ [][ShapeNext]_vars

\* ---------------------------------------------------------------------
\* Properties
\* ---------------------------------------------------------------------
TrainPcs == {"epoch", "fetch", "forward", "loss", "zero_grad", "backward", "step",
             "track", "epoch_end"}
BodyPcs == {"forward", "loss", "zero_grad", "backward", "step", "track"}
EvalPcs == {"test", "test_fetch", "test_body", "test_print"}

EpochLines == {k \in DOMAIN output : output[k][1] = "Epoch"}
AccuracyLines == {k \in DOMAIN output : output[k][1] = "Accuracy"}

BatchOps == <<"forward", "loss", "zero_grad", "backward", "step">>

PhaseRank(p) ==
  CASE p = "load" -> 0
    [] p = "define" -> 1
    [] p = "create" -> 2
    [] p \in TrainPcs -> 3
    [] p \in EvalPcs \ {"test_print"} -> 4
    [] p = "test_print" -> 5
    [] OTHER -> 6

\* C1: the phases run in the order dataset loading, model definition,
\* training loop, evaluation loop, printed test accuracy: the model class is
\* defined only once the loaders exist, training starts only on an
\* instantiated model, a test batch is processed only after all epochs have
\* finished (all their lines printed), and the test-accuracy line is printed
\* only after every test batch has been processed.
C1_PhaseOrder ==
  /\ (model # "none" => loaders)
  /\ (pc \in TrainPcs \cup EvalPcs \cup {"done"} => model = "ready")
  /\ (train_iters > 0 => model = "ready")
  /\ (pc = "test_body" \/ test_iters > 0 =>
        /\ epoch = EpochsN
        /\ Cardinality(EpochLines) = EpochsN
        /\ train_iters = EpochsN * LoaderLen(TrainN, BatchN))
  /\ (AccuracyLines # {} =>
        /\ pc = "done"
        /\ AccuracyLines = {Len(output)}
        /\ test_iters = LoaderLen(TestN, BatchN)
        /\ \A s \in 1..TestN : seen[s] >= 1)

C1_Witness == pc = "done" /\ Len(output) = EpochsN + 1 /\ test_iters > 1

\* C2: the training loop passes the whole training set through the network
\* exactly num_epochs times: within an epoch no sample is in two batches,
\* when the inner loop ends every sample has been in exactly one batch, and
\* the Epoch lines printed are [1/n], [2/n], ... in increasing remaining, one per
\* finished epoch, n of them once training is over.
C2_FullPasses ==
  /\ (pc \in TrainPcs \ {"epoch"} =>
        /\ DOMAIN seen = 1..TrainN
        /\ \A s \in 1..TrainN : seen[s] <= 1)
  /\ (pc = "epoch_end" => \A s \in 1..TrainN : seen[s] = 1)
  /\ (pc = "epoch_end" => total = TrainN)
  /\ \A k \in EpochLines : output[k] = <<"Epoch", k, EpochsN>>
  /\ Cardinality(EpochLines) = epoch
  /\ (pc \in TrainPcs => epoch <= EpochsN)
  /\ (pc \in EvalPcs \cup {"done"} => epoch = EpochsN)

C2_Witness ==
  pc = "epoch_end" /\ epoch = EpochsN - 1 /\ i > 1 /\ Cardinality(batch) < BatchN

\* C3: for every training batch the calls are made in the order forward,
\* loss, zero_grad, backward, step; the gradients a step consumes are those
\* of the current batch alone; one step is taken per batch, so that
\* num_epochs * len(train_loader) updates have been applied after training.
C3_BatchSteps ==
  /\ (pc \in BodyPcs => Len(ops) <= Len(BatchOps) /\ ops = SubSeq(BatchOps, 1, Len(ops)))
  /\ (pc = "track" => ops = BatchOps)
  /\ (pc = "step" => grad = {<<epoch, i>>})
  /\ (pc = "track" => applied = {<<epoch, i>>})
  /\ (pc \in TrainPcs => params = train_iters + (IF pc = "track" THEN 1 ELSE 0))
  /\ (pc \in EvalPcs \cup {"done"} => params = EpochsN * LoaderLen(TrainN, BatchN))

C3_Witness == pc = "track" /\ epoch = EpochsN - 1 /\ i > 0 /\ params > LoaderLen(TrainN, BatchN)

\* C5: while the evaluation cell runs, no backward pass and no optimizer
\* step is performed and gradients stay disabled inside the loop, so every
\* step of the evaluation leaves the trainable parameters (and the
\* accumulated gradients) as the last training epoch left them.
EvalStepFrame ==
  /\ params' = params
  /\ grad' = grad
  /\ applied' = applied
  /\ (pc # "test" => "backward" \notin Range(ops') /\ "step" \notin Range(ops'))
  /\ (pc' # "done" => ~grad_enabled')

C5_EvalFrame == [][(pc \in EvalPcs) => EvalStepFrame]_vars

C5_Witness ==
  pc = "done" /\ test_iters = LoaderLen(TestN, BatchN) /\ params > 0 /\ grad # {}

\* C6: when the test-accuracy line is printed, every test image has been
\* counted exactly once, total equals the size of the test set whatever the
\* shuffle order and the size of the last batch, and the value printed is
\* 100 * correct / total.
C6_TestTotal ==
  pc = "done" =>
    /\ output[Len(output)] = <<"Accuracy">>
    /\ DOMAIN seen = 1..TestN
    /\ \A s \in 1..TestN : seen[s] = 1
    /\ total = TestN
    /\ correct <= total
    /\ printed = <<100 * correct, TestN>>

C6_Witness == pc = "done" /\ Cardinality(batch) < BatchN /\ correct > 0 /\ correct < total

\* C9: a run terminates: from the start of the training loop the final
\* test-accuracy line is eventually printed, after exactly
\* num_epochs * len(train_loader) training iterations and len(test_loader)
\* evaluation iterations, and no step returns to an earlier phase.
C9_Terminates ==
  /\ (pc = "epoch" /\ epoch = 0) ~> (pc = "done" /\ AccuracyLines # {})
  /\ [](pc = "done" =>
          /\ train_iters = EpochsN * LoaderLen(TrainN, BatchN)
          /\ test_iters = LoaderLen(TestN, BatchN))
  /\ [][PhaseRank(pc') >= PhaseRank(pc)]_vars

C9_Witness ==
  /\ pc = "done"
  /\ train_iters = EpochsN * LoaderLen(TrainN, BatchN)
  /\ test_iters = LoaderLen(TestN, BatchN)

\* number of pairs the last batch of a pass holds
LastBatchLen(n) == IF n = TrainSetSize THEN 32 ELSE 16

\* C4 as stated: every batch yielded by train_loader and test_loader holds
\* exactly batch_size (64) image/label pairs, the last batch of a pass over
\* the 60000 training or the 10000 test images included.
C4_FixedSize == ld_i > 0 => ld_len = batch_size

\* C4 as amended: every batch holds between 1 and batch_size pairs, every
\* batch but the last of a pass holds exactly batch_size (64), and the last
\* batch holds the remainder: 32 pairs for the 60000 training images (batch
\* 938) and 16 pairs for the 10000 test images (batch 157); the sizes of a
\* pass add up to the size of the dataset.
C4_LastBatchRemainder ==
  /\ (ld_i > 0 => ld_len >= 1 /\ ld_len <= batch_size)
  /\ (ld_i > 0 /\ ld_i < LoaderLen(ld_n, batch_size) => ld_len = batch_size)
  /\ (ld_i >= LoaderLen(ld_n, batch_size) => ld_len = LastBatchLen(ld_n))
  /\ (ld_state = "exhausted" =>
        /\ ld_i = (IF ld_n = TrainSetSize THEN 938 ELSE 157)
        /\ ld_len = LastBatchLen(ld_n)
        /\ ld_total = ld_n)

C4_Witness ==
  ld_state = "exhausted" /\ ld_n = TestSetSize /\ ld_i = 157 /\ ld_len = 16

\* C7: in CANModel every convolution keeps the spatial extent: for any
\* input height and width >= 1 the feature map has the input's height and
\* width after each of conv1..conv5 (so 32x32 stays 32x32 up to the pooling),
\* no layer rejects its input, and the adaptive average pooling then
\* reduces it to 1x1.
C7_CanKeepsExtent ==
  net = "can" =>
    /\ fwd # "error"
    /\ (fwd = "layers" /\ li < Len(CANLayers) => curH = inH /\ curW = inW)
    /\ (fwd = "layers" /\ li = Len(CANLayers) => curH = 1 /\ curW = 1)
    /\ (fwd \in {"flat", "ok"} => feat = num_classes)

C7_Witness ==
  net = "can" /\ inH = 32 /\ inW = 32 /\ fwd = "layers" /\ li = 10 /\ curH = 32 /\ curW = 32

\* C8: LeNet5 needs 32x32 inputs: a 1x32x32 image leaves layer2 as 16x5x5
\* and flattens to 400 features, the input size of fc, and the pass
\* returns; a 28x28 image flattens to 16*4*4 = 256 features, which fc
\* rejects.
C8_LeNetNeeds32 ==
  net = "lenet5" =>
    /\ (inH = 32 /\ inW = 32 =>
          /\ fwd # "error"
          /\ (fwd = "flat" /\ li = 0 =>
                /\ <<curC, curH, curW>> = <<16, 5, 5>>
                /\ feat = 400
                /\ feat = LeNetLinears[1].fin))
    /\ (inH = 28 /\ inW = 28 =>
          /\ fwd # "ok"
          /\ (fwd = "flat" => li = 0 /\ feat = 256 /\ feat # LeNetLinears[1].fin)
          /\ (fwd = "error" => feat = 256))

C8_Witness == net = "lenet5" /\ inH = 32 /\ inW = 32 /\ fwd = "ok" /\ feat = num_classes
====
